---- MODULE Spec2Model ----
(***************************************************************************)
(* Model of the Modified UTF-8 codec of lcjvm (src/src/string.rs):         *)
(* the validator, the decoding iterators JChars and Chars, encode_char     *)
(* and the lossy conversion from_utf8_str.                                 *)
(*                                                                         *)
(* Option<T> is modelled as a sequence of length at most one:              *)
(* None is <<>> and Some(v) is <<v>>.                                      *)
(***************************************************************************)
EXTENDS Integers, Sequences, FiniteSets

VARIABLES x, n, src, op, res, units, fault, c, st, bytes, vec, pc, old

vars == <<x, n, src, op, res, units, fault, c, st, bytes, vec, pc, old>>

-----------------------------------------------------------------------------
(* Bounds *)

\* number of byte groups pushed into the buffer handed to the operations
MaxGroups == 3

\* number of scalars of the text handed to from_utf8_str
MaxText == 2

\* bytes the output Vec of from_utf8_str can hold before allocation fails;
\* a correct conversion needs at most 6 bytes per scalar
MaxVec == 6 * MaxText + 2

-----------------------------------------------------------------------------
(* Rust integer operators *)

RECURSIVE BitAnd(_, _)
BitAnd(a, b) ==
    IF a = 0 \/ b = 0 THEN 0
    ELSE (a % 2) * (b % 2) + 2 * BitAnd(a \div 2, b \div 2)

RECURSIVE BitOr(_, _)
BitOr(a, b) ==
    IF a = 0 THEN b
    ELSE IF b = 0 THEN a
    ELSE (IF a % 2 = 1 \/ b % 2 = 1 THEN 1 ELSE 0) + 2 * BitOr(a \div 2, b \div 2)

\* a << k at width w bits
Shl(a, k, w) == (a * (2 ^ k)) % (2 ^ w)

\* a << k on u32, for a < 2^14 and k <= 12: the result is below 2^26 and
\* never wraps
ShlU32(a, k) == a * (2 ^ k)

\* a >> k
Shr(a, k) == a \div (2 ^ k)

\* x as u8
AsU8(a) == a % 256

\* <char>::from_u32(v).is_some(): a Unicode scalar value
IsChar(v) == v <= \h10FFFF /\ ~(v >= \hD800 /\ v <= \hDFFF)

-----------------------------------------------------------------------------
(* ModifiedUtf8Error and Result<(), ModifiedUtf8Error> *)

Ok == [ok |-> TRUE, pos |-> 0, len |-> <<>>]

Err(p, l) == [ok |-> FALSE, pos |-> p, len |-> l]

valid_up_to(e) == e.pos

error_len(e) == e.len

-----------------------------------------------------------------------------
(* validate_modified_utf8 *)

\* ErrStrayByte reporting the offset after the stray byte
ErrStrayByte_OffByOne(pos, pair_start) ==
    IF pair_start # <<>>
    THEN Err(pair_start[1].pos, <<3>>)
    ELSE Err(pos + 1, <<1>>)

\* the error of a literal 0x00 or of a stray continuation byte at pos
ErrStrayByte(pos, pair_start) ==
    IF pair_start # <<>>
    THEN Err(pair_start[1].pos, <<3>>)
    ELSE Err(pos, <<1>>)

\* ErrTruncated reporting a one-byte error instead of an unknown length
ErrTruncated_Len1(at) == Err(at, <<1>>)

\* iter.next().ok_or(ModifiedUtf8Error { pos: at, len: None })
ErrTruncated(at) == Err(at, <<>>)

\* ErrFourByte reporting the length of the would-be 4-byte sequence
ErrFourByte_Len4(pos) == Err(pos, <<4>>)

\* ErrFourByte reporting the offset after the lead byte
ErrFourByte_After(pos) == Err(pos + 1, <<1>>)

\* the error of a lead byte 1111xxxx at pos
ErrFourByte(pos) == Err(pos, <<1>>)

\* IsCont with the mask 0xe0 in place of 0xc0
IsCont_MaskE0(b) == BitAnd(b, \hE0) = \h80

\* `*cont & 0xc0 != 0x80` is the negation of IsCont(cont)
IsCont(b) == BitAnd(b, \hC0) = \h80

\* the error of a pending high surrogate that is not followed by its pair
ErrUnpaired(pair_start) == Err(pair_start[1].pos, <<3>>)

\* the 16-bit value of a 3-byte sequence
Decode3(b, cont1, cont2) ==
    BitOr(BitOr(Shl(BitAnd(b, \hF), 12, 16),
                Shl(BitAnd(cont1, \h3F), 6, 16)),
          BitAnd(cont2, \h3F))

\* the scalar of a pending high surrogate and the low surrogate val
CombinePair(high, val) ==
    \h10000 + ShlU32(BitAnd(high, \h3FFF), 10) + BitAnd(val, \h3FFF)

IsHighSurrogate(val) == val >= \hD800 /\ val <= \hDBFF

IsLowSurrogate(val) == val >= \hDC00 /\ val <= \hDFFF

\* the scan from the iterator position i (1-based; pos = i - 1)
RECURSIVE ValidateFrom(_, _, _)
ValidateFrom(buf, i, pair_start) ==
    IF i > Len(buf) THEN Ok
    ELSE
      LET pos == i - 1
          b == buf[i]
      IN
      IF b = 0 THEN ErrStrayByte(pos, pair_start)
      ELSE IF BitAnd(b, \hC0) = \h80 THEN ErrStrayByte(pos, pair_start)
      ELSE IF BitAnd(b, \hE0) = \hC0 THEN
        IF pair_start # <<>> THEN ErrUnpaired(pair_start)
        ELSE IF i + 1 > Len(buf) THEN ErrTruncated(pos + 1)
        ELSE IF ~IsCont(buf[i + 1]) THEN Err(pos, <<2>>)
        ELSE ValidateFrom(buf, i + 2, pair_start)
      ELSE IF BitAnd(b, \hF0) = \hE0 THEN
        IF i + 1 > Len(buf) THEN ErrTruncated(pos + 1)
        ELSE IF ~IsCont(buf[i + 1]) THEN Err(pos, <<3>>)
        ELSE IF i + 2 > Len(buf) THEN ErrTruncated(pos + 2)
        ELSE IF ~IsCont(buf[i + 2]) THEN Err(pos, <<3>>)
        ELSE
          LET val == Decode3(b, buf[i + 1], buf[i + 2]) IN
          IF IsHighSurrogate(val) THEN
            IF pair_start # <<>> THEN ErrUnpaired(pair_start)
            ELSE ValidateFrom(buf, i + 3, <<[val |-> val, pos |-> pos]>>)
          ELSE IF IsLowSurrogate(val) THEN
            IF pair_start # <<>> /\ ~IsChar(CombinePair(pair_start[1].val, val))
            THEN Err(pair_start[1].pos, <<6>>)
            ELSE ValidateFrom(buf, i + 3, pair_start)
          ELSE IF pair_start # <<>> THEN ErrUnpaired(pair_start)
          ELSE ValidateFrom(buf, i + 3, pair_start)
      ELSE IF BitAnd(b, \hF0) = \hF0 THEN ErrFourByte(pos)
      ELSE IF pair_start # <<>> THEN ErrUnpaired(pair_start)
      ELSE ValidateFrom(buf, i + 1, pair_start)

validate_modified_utf8(buf) == ValidateFrom(buf, 1, <<>>)

-----------------------------------------------------------------------------
(* Decoding iterators.  An iterator over buf is the index i of its next   *)
(* byte (1-based).  next returns [kind, val, i]: kind "some" with the     *)
(* item val, "none" at the end, "eof" when the "Unexpected EOF in JStr"   *)
(* site is reached, "unwrap" when <char>::from_u32(val).unwrap() fails;   *)
(* i is the iterator after the call.                                       *)

Item(k, v, i) == [kind |-> k, val |-> v, i |-> i]

\* JChars::next
JCharsNext(buf, i) ==
    IF i > Len(buf) THEN Item("none", 0, i)
    ELSE
      LET first == buf[i] IN
      IF BitAnd(first, \h80) = 0 THEN Item("some", first, i + 1)
      ELSE IF BitAnd(first, \hE0) = \hC0 THEN
        IF i + 1 > Len(buf) THEN Item("eof", 0, i + 1)
        ELSE Item("some",
                  BitOr(Shl(BitAnd(first, \h1F), 6, 16),
                        BitAnd(buf[i + 1], \h3F)),
                  i + 2)
      ELSE
        IF i + 1 > Len(buf) THEN Item("eof", 0, i + 1)
        ELSE IF i + 2 > Len(buf) THEN Item("eof", 0, i + 2)
        ELSE Item("some",
                  BitOr(BitOr(Shl(BitAnd(first, \hF), 12, 16),
                              Shl(BitAnd(buf[i + 1], \h3F), 6, 16)),
                        BitAnd(buf[i + 2], \h3F)),
                  i + 3)

\* the value Chars::next computes from a high surrogate val and the next
\* unit low: `+` binds tighter than `&`, so the mask applies to the sum
CharsCombine(val, low) ==
    BitAnd(\h10000 + ShlU32(BitAnd(val, \h3FF), 10) + low, \h3FFF)

\* Chars::next
CharsNext(buf, i) ==
    LET r == JCharsNext(buf, i) IN
    IF r.kind # "some" THEN r
    ELSE IF IsHighSurrogate(r.val) THEN
      LET r2 == JCharsNext(buf, r.i) IN
      IF r2.kind # "some" THEN Item("eof", 0, r2.i)
      ELSE
        LET val == CharsCombine(r.val, r2.val) IN
        IF IsChar(val) THEN Item("some", val, r2.i)
        ELSE Item("unwrap", val, r2.i)
    ELSE IF IsChar(r.val) THEN r
    ELSE Item("unwrap", r.val, r.i)

\* the items an iterator yields until it ends or fails
RECURSIVE JCharsFrom(_, _)
JCharsFrom(buf, i) ==
    LET r == JCharsNext(buf, i) IN
    IF r.kind = "some"
    THEN LET t == JCharsFrom(buf, r.i) IN
         [items |-> <<r.val>> \o t.items, fault |-> t.fault]
    ELSE [items |-> <<>>, fault |-> r.kind]

RECURSIVE CharsFrom(_, _)
CharsFrom(buf, i) ==
    LET r == CharsNext(buf, i) IN
    IF r.kind = "some"
    THEN LET t == CharsFrom(buf, r.i) IN
         [items |-> <<r.val>> \o t.items, fault |-> t.fault]
    ELSE [items |-> <<>>, fault |-> r.kind]

\* what reaching the "Unexpected EOF in JStr" site does: debug_unreachable!
\* panics in a debug or paranoid build, unreachable_unchecked is undefined
\* behaviour in a release build
EofOutcomes == {"panic", "undefined"}

-----------------------------------------------------------------------------
(* Standard UTF-8 and UTF-16 of the Rust library, as the codec uses them   *)

\* char::encode_utf16
encode_utf16(ch) ==
    IF ch < \h10000 THEN <<ch>>
    ELSE <<\hD800 + Shr(ch - \h10000, 10), \hDC00 + BitAnd(ch - \h10000, \h3FF)>>

\* char::len_utf8
len_utf8(ch) ==
    IF ch < \h80 THEN 1
    ELSE IF ch < \h800 THEN 2
    ELSE IF ch < \h10000 THEN 3
    ELSE 4

\* the bytes of a one-char str
Utf8Char(ch) ==
    IF ch < \h80 THEN <<ch>>
    ELSE IF ch < \h800 THEN
      <<\hC0 + Shr(ch, 6), \h80 + BitAnd(ch, \h3F)>>
    ELSE IF ch < \h10000 THEN
      <<\hE0 + Shr(ch, 12), \h80 + BitAnd(Shr(ch, 6), \h3F),
        \h80 + BitAnd(ch, \h3F)>>
    ELSE
      <<\hF0 + Shr(ch, 18), \h80 + BitAnd(Shr(ch, 12), \h3F),
        \h80 + BitAnd(Shr(ch, 6), \h3F), \h80 + BitAnd(ch, \h3F)>>

\* str::as_bytes of the text s, a sequence of scalars
RECURSIVE as_bytes(_)
as_bytes(s) ==
    IF s = <<>> THEN <<>> ELSE Utf8Char(Head(s)) \o as_bytes(Tail(s))

\* from_utf8_unchecked(b).chars().next(), for b valid UTF-8
Utf8First(b) ==
    IF b = <<>> THEN <<>>
    ELSE IF b[1] < \h80 THEN <<b[1]>>
    ELSE IF b[1] < \hE0 THEN
      <<(b[1] - \hC0) * 64 + (b[2] - \h80)>>
    ELSE IF b[1] < \hF0 THEN
      <<(b[1] - \hE0) * 4096 + (b[2] - \h80) * 64 + (b[3] - \h80)>>
    ELSE
      <<(b[1] - \hF0) * 262144 + (b[2] - \h80) * 4096
          + (b[3] - \h80) * 64 + (b[4] - \h80)>>

\* slice.split_at(k)
split_at(b, k) == <<SubSeq(b, 1, k), SubSeq(b, k + 1, Len(b))>>

-----------------------------------------------------------------------------
(* JStr::encode_char: the view it returns over the caller's [u8; 6]       *)

\* the 3-byte sequence of the 16-bit value u
Enc3(u) ==
    << BitOr(\hE0, AsU8(BitAnd(Shr(u, 12), \hF))),
       BitOr(\h80, AsU8(BitAnd(Shr(u, 6), \h3F))),
       BitOr(\h80, AsU8(BitAnd(u, \h3F))) >>

\* the scalars below this bound take the 3-byte branch
ThreeByteLimit == \h80000

\* the length of the view returned for a scalar of the last branch
PairViewLen == 3

\* `let mut u16 @ [h, w] = [0; 2]` copies the two zeroes into h and w
\* before c.encode_utf16(&mut u16) writes the array
PairHalves(ch) == <<0, 0>>

encode_char(ch) ==
    IF ch < \h80 THEN <<AsU8(ch)>>
    ELSE IF ch < \h800 THEN
      << BitOr(\hC0, AsU8(BitAnd(Shr(ch, 6), \h1F))),
         BitOr(\h80, AsU8(BitAnd(ch, \h3F))) >>
    ELSE IF ch < ThreeByteLimit THEN Enc3(ch)
    ELSE
      LET hw == PairHalves(ch) IN
      SubSeq(Enc3(hw[1]) \o Enc3(hw[2]), 1, PairViewLen)

-----------------------------------------------------------------------------
(* JStr::from_utf8_str: the bytes pushed for one scalar of the text       *)

\* the 1-, 2- or 3-byte sequence of the UTF-16 unit u
EncUnit(u) ==
    IF u < \h80 THEN <<AsU8(u)>>
    ELSE IF u < \h800 THEN
      << AsU8(BitOr(Shr(u, 6), \hC0)), AsU8(BitOr(BitAnd(u, \h3F), \h80)) >>
    ELSE
      << AsU8(BitOr(Shr(u, 12), \hE0)),
         AsU8(BitOr(BitAnd(Shr(u, 6), \h3F), \h80)),
         AsU8(BitOr(BitAnd(u, \h3F), \h80)) >>

RECURSIVE EncUnits(_)
EncUnits(us) ==
    IF us = <<>> THEN <<>> ELSE EncUnit(Head(us)) \o EncUnits(Tail(us))

\* what the loop appends to vec for the scalar ch
Repair(ch) ==
    IF ch = 0 THEN <<\hC0, \h80>> ELSE EncUnits(encode_utf16(ch))

\* `bytes = &bytes[..c.len_utf8()]`: the slice the loop goes on with
AfterChar(b, ch) == SubSeq(b, 1, len_utf8(ch))

-----------------------------------------------------------------------------
(* JStr::make_ascii_lowercase and JStr::make_ascii_uppercase               *)

\* LowerByte without the lower end of the range check
LowerByte_NoLowerBound(b) == IF b < \h5B THEN BitOr(b, \h20) ELSE b

\* the body of the loop of make_ascii_lowercase
LowerByte(b) == IF \h40 < b /\ b < \h5B THEN BitOr(b, \h20) ELSE b

\* the body of the loop of make_ascii_uppercase; !0x20 is 0xdf on u8
UpperByte(b) == IF \h60 < b /\ b < \h7B THEN BitAnd(b, \hDF) ELSE b

make_ascii_lowercase(buf) == [k \in 1..Len(buf) |-> LowerByte(buf[k])]

make_ascii_uppercase(buf) == [k \in 1..Len(buf) |-> UpperByte(buf[k])]

-----------------------------------------------------------------------------
(* std::str::from_utf8 of the Rust library, as Display and into_str use it *)

\* the length of the well-formed standard UTF-8 sequence that starts at
\* index i of buf, 0 when there is none
Utf8SeqLen(buf, i) ==
    LET b == buf[i]
        has(k) == i + k <= Len(buf)
        cont(k) == buf[i + k] \in 128..191
    IN
    IF b < \h80 THEN 1
    ELSE IF b \in \hC2..\hDF THEN
      IF has(1) /\ cont(1) THEN 2 ELSE 0
    ELSE IF b \in \hE0..\hEF THEN
      IF has(2) /\ cont(1) /\ cont(2)
         /\ (b = \hE0 => buf[i + 1] >= \hA0)
         /\ (b = \hED => buf[i + 1] <= \h9F)
      THEN 3 ELSE 0
    ELSE IF b \in \hF0..\hF4 THEN
      IF has(3) /\ cont(1) /\ cont(2) /\ cont(3)
         /\ (b = \hF0 => buf[i + 1] >= \h90)
         /\ (b = \hF4 => buf[i + 1] <= \h8F)
      THEN 4 ELSE 0
    ELSE 0

\* Utf8Error::valid_up_to of from_utf8(buf) scanning from index i; Len(buf)
\* when from_utf8 returns Ok
RECURSIVE Utf8ValidUpTo(_, _)
Utf8ValidUpTo(buf, i) ==
    IF i > Len(buf) THEN Len(buf)
    ELSE LET k == Utf8SeqLen(buf, i) IN
         IF k = 0 THEN i - 1 ELSE Utf8ValidUpTo(buf, i + k)

\* from_utf8(buf).is_ok()
IsUtf8(buf) == Utf8ValidUpTo(buf, 1) = Len(buf)

\* the scalars of the str over the valid UTF-8 bytes buf
RECURSIVE Utf8Decode(_)
Utf8Decode(buf) ==
    IF buf = <<>> THEN <<>>
    ELSE LET ch == Utf8First(buf)[1] IN
         <<ch>> \o Utf8Decode(SubSeq(buf, len_utf8(ch) + 1, Len(buf)))

-----------------------------------------------------------------------------
(* impl Display for JStr and JStr::into_str.  The text written is a       *)
(* sequence of scalars; fault is "none" when fmt returns, "index" when    *)
(* rest[1] is out of bounds, "split_at" when rest.split_at(6) is, and a   *)
(* fault of Chars::next otherwise.                                         *)

\* the loop of fmt over the slice inner
RECURSIVE DisplayFrom(_)
DisplayFrom(inner) ==
    IF IsUtf8(inner) THEN [items |-> Utf8Decode(inner), fault |-> "none"]
    ELSE
      LET k == Utf8ValidUpTo(inner, 1)
          prefix == split_at(inner, k)[1]
          rest == split_at(inner, k)[2]
          pair ==
            IF Len(rest) < 6 THEN [items |-> <<>>, fault |-> "split_at"]
            ELSE
              LET r == CharsNext(split_at(rest, 6)[1], 1) IN
              IF r.kind = "some"
              THEN LET t == DisplayFrom(split_at(rest, 6)[2]) IN
                   [items |-> <<r.val>> \o t.items, fault |-> t.fault]
              ELSE [items |-> <<>>, fault |-> r.kind]
          out ==
            IF rest[1] = \hC0
            THEN IF Len(rest) < 2 THEN [items |-> <<>>, fault |-> "index"]
                 ELSE IF rest[2] = \h80
                 THEN LET t == DisplayFrom(SubSeq(rest, 3, Len(rest))) IN
                      [items |-> <<0>> \o t.items, fault |-> t.fault]
                 ELSE pair
            ELSE pair
      IN [items |-> Utf8Decode(prefix) \o out.items, fault |-> out.fault]

\* JStr::into_str: the scalars of the Cow<str> it returns
into_str(buf) ==
    IF IsUtf8(buf) THEN [items |-> Utf8Decode(buf), fault |-> "none"]
    ELSE DisplayFrom(buf)

\* the outcomes of a fault: the unexpected-EOF site has those of EofOutcomes
Outcomes(f) == IF f = "eof" THEN EofOutcomes ELSE {f}

-----------------------------------------------------------------------------
(* JString::from_modified_utf8: ok with the bytes of the JString, or the   *)
(* FromModifiedUtf8Error with its err and the bytes of its vec             *)

\* from_modified_utf8 keeping only the valid prefix of a rejected buffer
from_modified_utf8_Truncating(v) ==
    LET e == validate_modified_utf8(v) IN
    IF ~e.ok
    THEN [ok |-> FALSE, err |-> e, vec |-> SubSeq(v, 1, valid_up_to(e))]
    ELSE [ok |-> TRUE, err |-> Ok, vec |-> v]

from_modified_utf8(v) ==
    LET e == validate_modified_utf8(v) IN
    IF ~e.ok
    THEN [ok |-> FALSE, err |-> e, vec |-> v]
    ELSE [ok |-> TRUE, err |-> Ok, vec |-> v]

-----------------------------------------------------------------------------
(* State *)

\* the byte groups a buffer is assembled from
Groups ==
    { <<\h00>>, <<\h41>>, <<\h61>>, <<\h80>>, <<\hC3>>, <<\hE2>>, <<\hF0>>,
      <<\hC0, \h80>>, <<\hC3, \hA9>>, <<\hE2, \h82, \hAC>>,
      <<\hED, \hA0, \hBD>>, <<\hED, \hB8, \h80>> }

\* the scalars handed to encode_char
EncChars ==
    { \h0, \h41, \h7F, \h80, \hE9, \h7FF, \h800, \h20AC, \hFFFF,
      \h10000, \h1F600, \h7FFFF, \h80000, \h10FFFF }

\* the scalars of the texts handed to from_utf8_str
TextChars == { \h0, \h41, \hE9, \h20AC, \h1F600 }

Texts == UNION { [1..k -> TextChars] : k \in 0..MaxText }

Init ==
    /\ x = <<>>
    /\ n = 0
    /\ src = "raw"
    /\ op = "none"
    /\ res = Ok
    /\ units = <<>>
    /\ fault = "none"
    /\ c = 0
    /\ st = <<>>
    /\ bytes = <<>>
    /\ vec = <<>>
    /\ pc = "idle"
    /\ old = <<>>

\* the caller assembles the byte buffer
Push(g) ==
    /\ op = "none" /\ src = "raw" /\ pc = "idle"
    /\ n < MaxGroups
    /\ x' = x \o g
    /\ n' = n + 1
    /\ UNCHANGED <<src, op, res, units, fault, c, st, bytes, vec, pc, old>>

\* validate_modified_utf8(x)
Validate ==
    /\ op = "none" /\ pc \in {"idle", "borrowed", "owned"}
    /\ op' = "validate"
    /\ res' = validate_modified_utf8(x)
    /\ UNCHANGED <<x, n, src, units, fault, c, st, bytes, vec, pc, old>>

\* x.jchars() iterated to its end
IterJChars ==
    /\ op = "none" /\ pc \in {"idle", "borrowed", "owned"}
    /\ LET r == JCharsFrom(x, 1) IN
       /\ units' = r.items
       /\ IF r.fault = "eof"
          THEN \E o \in EofOutcomes : fault' = o
          ELSE fault' = r.fault
    /\ op' = "jchars"
    /\ UNCHANGED <<x, n, src, res, c, st, bytes, vec, pc, old>>

\* x.chars() iterated to its end
IterChars ==
    /\ op = "none" /\ pc \in {"idle", "borrowed", "owned"}
    /\ LET r == CharsFrom(x, 1) IN
       /\ units' = r.items
       /\ IF r.fault = "eof"
          THEN \E o \in EofOutcomes : fault' = o
          ELSE fault' = r.fault
    /\ op' = "chars"
    /\ UNCHANGED <<x, n, src, res, c, st, bytes, vec, pc, old>>

\* JStr::encode_char(ch, &mut bytes): x becomes the returned view
EncodeChar(ch) ==
    /\ op = "none" /\ src = "raw" /\ pc = "idle" /\ n = 0
    /\ c' = ch
    /\ x' = encode_char(ch)
    /\ src' = "encode_char"
    /\ UNCHANGED <<n, op, res, units, fault, st, bytes, vec, pc, old>>

\* JStr::from_utf8_str(s) up to the loop: pc "borrowed" is the return of
\* Cow::Borrowed over the bytes of s, pc "loop" the head of the loop
FromUtf8Str(s) ==
    /\ op = "none" /\ src = "raw" /\ pc = "idle" /\ n = 0
    /\ st' = s
    /\ src' = "from_utf8_str"
    /\ LET e == validate_modified_utf8(as_bytes(s)) IN
       IF e.ok
       THEN /\ x' = as_bytes(s)
            /\ pc' = "borrowed"
            /\ UNCHANGED <<bytes, vec>>
       ELSE LET sp == split_at(as_bytes(s), valid_up_to(e)) IN
            /\ vec' = sp[1]
            /\ bytes' = sp[2]
            /\ pc' = "loop"
            /\ UNCHANGED x
    /\ UNCHANGED <<n, op, res, units, fault, c, old>>

\* one iteration of the loop of from_utf8_str: pc "owned" is the return of
\* Cow::Owned(JString(vec)), pc "panic" the failed unwrap on an empty
\* slice, pc "abort" the allocation failure of a Vec grown past MaxVec
FromUtf8StrLoop ==
    /\ pc = "loop"
    /\ LET first == Utf8First(bytes) IN
       IF first = <<>>
       THEN /\ pc' = "panic"
            /\ UNCHANGED <<x, bytes, vec>>
       ELSE
         LET ch == first[1]
             b1 == AfterChar(bytes, ch)
             v1 == vec \o Repair(ch)
             e == validate_modified_utf8(b1)
             sp == split_at(b1, valid_up_to(e))
             v2 == IF e.ok THEN v1 \o b1 ELSE v1 \o sp[1]
         IN
         IF Len(v2) > MaxVec
         THEN /\ pc' = "abort"
              /\ UNCHANGED <<x, bytes, vec>>
         ELSE IF e.ok
         THEN /\ vec' = v2
              /\ x' = v2
              /\ bytes' = b1
              /\ pc' = "owned"
         ELSE /\ vec' = v2
              /\ bytes' = sp[2]
              /\ pc' = "loop"
              /\ UNCHANGED x
    /\ UNCHANGED <<n, src, op, res, units, fault, c, st, old>>

\* x.make_ascii_lowercase() on a &mut JStr (a Cow::Borrowed view is not
\* mutable): x is folded in place, old keeps its bytes before the call
MakeAsciiLowercase ==
    /\ op = "none" /\ pc \in {"idle", "owned"}
    /\ old' = x
    /\ x' = make_ascii_lowercase(x)
    /\ op' = "lower"
    /\ UNCHANGED <<n, src, res, units, fault, c, st, bytes, vec, pc>>

\* x.make_ascii_uppercase()
MakeAsciiUppercase ==
    /\ op = "none" /\ pc \in {"idle", "owned"}
    /\ old' = x
    /\ x' = make_ascii_uppercase(x)
    /\ op' = "upper"
    /\ UNCHANGED <<n, src, res, units, fault, c, st, bytes, vec, pc>>

\* x.to_string() through impl Display for JStr
Display ==
    /\ op = "none" /\ pc \in {"idle", "borrowed", "owned"}
    /\ LET r == DisplayFrom(x) IN
       /\ units' = r.items
       /\ fault' \in Outcomes(r.fault)
    /\ op' = "display"
    /\ UNCHANGED <<x, n, src, res, c, st, bytes, vec, pc, old>>

\* x.into_str()
IntoStr ==
    /\ op = "none" /\ pc \in {"idle", "borrowed", "owned"}
    /\ LET r == into_str(x) IN
       /\ units' = r.items
       /\ fault' \in Outcomes(r.fault)
    /\ op' = "into_str"
    /\ UNCHANGED <<x, n, src, res, c, st, bytes, vec, pc, old>>

\* JString::from_modified_utf8(x): res is Ok or the error of
\* modified_utf8_error(), vec the bytes of the JString or those given
\* back by as_bytes() and into_bytes()
FromModifiedUtf8 ==
    /\ op = "none" /\ src = "raw" /\ pc = "idle"
    /\ LET r == from_modified_utf8(x) IN
       /\ res' = r.err
       /\ vec' = r.vec
    /\ op' = "from_modified_utf8"
    /\ UNCHANGED <<x, n, src, units, fault, c, st, bytes, pc, old>>

Next ==
    \/ \E g \in Groups : Push(g)
    \/ \E ch \in EncChars : EncodeChar(ch)
    \/ \E s \in Texts : FromUtf8Str(s)
    \/ FromUtf8StrLoop
    \/ Validate
    \/ IterJChars
    \/ IterChars
    \/ MakeAsciiLowercase
    \/ MakeAsciiUppercase
    \/ Display
    \/ IntoStr
    \/ FromModifiedUtf8

Spec == Init /\ [][Next]_vars

-----------------------------------------------------------------------------
(* Vocabulary of the properties *)

\* the 3-byte sequence of the 16-bit value u, by arithmetic
ThreeBytes(u) ==
    <<224 + (u \div 4096), 128 + ((u \div 64) % 64), 128 + (u % 64)>>

\* b is the complete 3-byte sequence of a high surrogate (0xD800..0xDBFF)
IsHighSeq(b) ==
    /\ Len(b) = 3
    /\ b[1] = 237 /\ b[2] \in 160..175 /\ b[3] \in 128..191

\* b is the complete 3-byte sequence of a low surrogate (0xDC00..0xDFFF)
IsLowSeq(b) ==
    /\ Len(b) = 3
    /\ b[1] = 237 /\ b[2] \in 176..191 /\ b[3] \in 128..191

\* b starts with the complete 3-byte sequence of a low surrogate
StartsWithLowSeq(b) == Len(b) >= 3 /\ IsLowSeq(SubSeq(b, 1, 3))

\* the 16-bit value of the 3-byte sequence b, by arithmetic
ValueOf(b) == (b[1] - 224) * 4096 + (b[2] - 128) * 64 + (b[3] - 128)

\* the last code unit of buf is a high surrogate
EndsWithHigh(buf) ==
    LET u == JCharsFrom(buf, 1).items IN
    u # <<>> /\ u[Len(u)] \in \hD800..\hDBFF

\* buf scans as complete sequences without a defect, and no high surrogate
\* is pending at its end
Clean(buf) == validate_modified_utf8(buf).ok /\ ~EndsWithHigh(buf)

Prefix(buf, k) == SubSeq(buf, 1, k)

Suffix(buf, k) == SubSeq(buf, k + 1, Len(buf))

\* well-formed content without surrogates
PlainGroups == { <<>>, <<\h41>>, <<\hC0, \h80>>, <<\hC3, \hA9>>, <<\hE2, \h82, \hAC>> }

-----------------------------------------------------------------------------
(* Properties *)

\* C1: from_utf8_str never fails (no failed unwrap, no allocation failure
\* of an output that grows without end) and the buffer it returns is
\* accepted by validate_modified_utf8.
C1_LossyTotality ==
    src = "from_utf8_str" =>
        /\ pc \notin {"panic", "abort"}
        /\ pc \in {"borrowed", "owned"} => validate_modified_utf8(x).ok

\* C2: a buffer made of plain well-formed content, the 3-byte sequence of a
\* high surrogate, the 3-byte sequence of a low surrogate and plain
\* well-formed content validates to Ok.
C2_PairAccepted ==
    (/\ op = "validate"
     /\ \E pre \in PlainGroups, post \in PlainGroups :
          /\ Len(x) = Len(pre) + 6 + Len(post)
          /\ Prefix(x, Len(pre)) = pre
          /\ IsHighSeq(SubSeq(x, Len(pre) + 1, Len(pre) + 3))
          /\ IsLowSeq(SubSeq(x, Len(pre) + 4, Len(pre) + 6))
          /\ Suffix(x, Len(pre) + 6) = post)
    => res.ok

\* C3: a buffer that ends right after the 3-byte sequence of a high
\* surrogate, with nothing pending before it, is rejected with valid_up_to
\* at the surrogate and error_len Some(3).
C3_LoneHighAtEnd ==
    (/\ op = "validate"
     /\ Len(x) >= 3
     /\ IsHighSeq(Suffix(x, Len(x) - 3))
     /\ Clean(Prefix(x, Len(x) - 3)))
    => res = Err(Len(x) - 3, <<3>>)

\* C4: over a buffer the validator accepts, JChars and Chars run to the end
\* without reaching the unexpected-EOF site or a failed unwrap.
C4_DecodableWhenValid ==
    (op \in {"jchars", "chars"} /\ validate_modified_utf8(x).ok)
    => fault = "none"

\* C5: encode_char returns 1 byte below 0x80, 2 bytes below 0x800, 3 bytes
\* below 0x10000 and, from 0x10000 on, the 6 bytes of the two UTF-16
\* surrogates of the scalar, 3 bytes each.
C5_EncodeCharLength ==
    src = "encode_char" =>
        /\ c < \h80 => Len(x) = 1
        /\ (c >= \h80 /\ c < \h800) => Len(x) = 2
        /\ (c >= \h800 /\ c < \h10000) => Len(x) = 3
        /\ c >= \h10000 =>
             x = ThreeBytes(\hD800 + ((c - \h10000) \div 1024))
                   \o ThreeBytes(\hDC00 + ((c - \h10000) % 1024))

\* C6: Chars yields one scalar 0x10000 + ((h - 0xD800) << 10) + (l - 0xDC00)
\* for the 6 bytes of a surrogate pair h, l, and yields the code units of a
\* buffer without surrogates unchanged.
C6_CharsRecombines ==
    op = "chars" =>
        /\ (Len(x) = 6 /\ IsHighSeq(Prefix(x, 3)) /\ IsLowSeq(Suffix(x, 3))) =>
             /\ fault = "none"
             /\ units = <<\h10000
                            + (ValueOf(Prefix(x, 3)) - \hD800) * 1024
                            + (ValueOf(Suffix(x, 3)) - \hDC00)>>
        /\ LET j == JCharsFrom(x, 1) IN
           (j.fault = "none" /\ \A k \in 1..Len(j.items) :
                                  j.items[k] \notin \hD800..\hDFFF)
           => (fault = "none" /\ units = j.items)

\* C7: encode_char of the NUL scalar returns the two bytes 0xC0 0x80, and
\* the view encode_char returns is accepted by the validator for every
\* scalar.
C7_EncodeCharValid ==
    src = "encode_char" =>
        /\ c = 0 => x = <<\hC0, \h80>>
        /\ validate_modified_utf8(x).ok

\* C8: when a high surrogate at offset p is pending and what follows it is
\* not a low surrogate, the validator reports valid_up_to = p and
\* error_len = Some(3), whatever follows.
C8_UnpairedFirst ==
    op = "validate" =>
        \A p \in 0..Len(x) :
          (/\ p + 3 < Len(x)
           /\ Clean(Prefix(x, p))
           /\ IsHighSeq(SubSeq(x, p + 1, p + 3))
           /\ ~StartsWithLowSeq(Suffix(x, p + 3)))
          => res = Err(p, <<3>>)

\* C9: a literal 0x00 or a stray continuation byte at offset p, reached with
\* no defect before it and no high surrogate pending, is reported with
\* valid_up_to = p and error_len = Some(1); no accepted buffer holds a 0x00.
C9_StrayByte ==
    op = "validate" =>
        /\ \A p \in 0..(Len(x) - 1) :
             (/\ Clean(Prefix(x, p))
              /\ (x[p + 1] = 0 \/ x[p + 1] \in 128..191))
             => res = Err(p, <<1>>)
        /\ res.ok => \A k \in 1..Len(x) : x[k] # 0

\* a literal 0x00 after a complete 2-byte sequence has been validated
C9_Witness ==
    /\ op = "validate"
    /\ x = <<\hC3, \hA9, \h00>>
    /\ res = Err(2, <<1>>)

\* the tail t is a 2- or 3-byte sequence cut short by the end of the buffer
IsTruncatedSeq(t) ==
    \/ Len(t) = 1 /\ t[1] \in 192..239
    \/ Len(t) = 2 /\ t[1] \in 224..239 /\ t[2] \in 128..191

\* C10: a buffer that ends inside a 2- or 3-byte sequence, with no defect
\* before it and no high surrogate pending, is rejected with error_len None
\* and valid_up_to equal to the length of the buffer.
C10_Truncation ==
    op = "validate" =>
        \A p \in 0..(Len(x) - 1) :
          (Clean(Prefix(x, p)) /\ IsTruncatedSeq(Suffix(x, p)))
          => res = Err(Len(x), <<>>)

\* a 3-byte sequence that lost its last byte has been validated
C10_Witness ==
    /\ op = "validate"
    /\ x = <<\h41, \hE2, \h80>>
    /\ res = Err(3, <<>>)

C12_FoldConfined ==
    op \in {"lower", "upper"} =>
        /\ Len(x) = Len(old)
        /\ \A k \in 1..Len(old) :
             /\ op = "lower" =>
                  x[k] = IF old[k] \in 65..90 THEN old[k] + 32 ELSE old[k]
             /\ op = "upper" =>
                  x[k] = IF old[k] \in 97..122 THEN old[k] - 32 ELSE old[k]
        /\ validate_modified_utf8(old).ok => validate_modified_utf8(x).ok

\* a buffer of an ASCII letter and a 3-byte sequence has been lowercased
C12_Witness ==
    /\ op = "lower"
    /\ old = <<\h41, \hE2, \h82, \hAC>>
    /\ x = <<\h61, \hE2, \h82, \hAC>>

\* C13: for a text s without U+0000 and without a scalar above U+FFFF,
\* from_utf8_str(s) returns Cow::Borrowed over exactly the bytes of s, and
\* into_str on that view yields the text s.
C13_RoundTrip ==
    (/\ src = "from_utf8_str"
     /\ \A k \in 1..Len(st) : st[k] # 0 /\ st[k] <= \hFFFF)
    => /\ pc = "borrowed"
       /\ x = as_bytes(st)
       /\ op = "into_str" => (fault = "none" /\ units = st)

\* a text of a 2-byte and a 3-byte scalar has gone to Modified UTF-8 and
\* back
C13_Witness ==
    /\ src = "from_utf8_str"
    /\ st = <<\hE9, \h20AC>>
    /\ pc = "borrowed"
    /\ op = "into_str"
    /\ units = <<\hE9, \h20AC>>

\* C15: Display of a view the validator accepts returns: neither rest[1]
\* nor split_at(6) is out of bounds and Chars::next does not fail.
C15_DisplayCompletes ==
    (op = "display" /\ validate_modified_utf8(x).ok) => fault = "none"

\* C14: JString::from_modified_utf8 succeeds exactly when the validator
\* accepts the bytes; the JString holds them unchanged, and a failure
\* carries the validator's error and gives the bytes back unchanged.
C14_FromModifiedUtf8 ==
    op = "from_modified_utf8" =>
        /\ res.ok <=> validate_modified_utf8(x).ok
        /\ vec = x
        /\ ~res.ok => (/\ valid_up_to(res) = valid_up_to(validate_modified_utf8(x))
                       /\ error_len(res) = error_len(validate_modified_utf8(x)))

\* a buffer with a defect after valid bytes has been rejected and given
\* back whole
C14_Witness ==
    /\ op = "from_modified_utf8"
    /\ x = <<\h41, \hC3, \hA9, \hF0>>
    /\ ~res.ok
    /\ valid_up_to(res) = 3
    /\ vec = <<\h41, \hC3, \hA9, \hF0>>

\* the error is one with a known length
HasLen(e) == ~e.ok /\ error_len(e) # <<>>

\* the original statement of C16: the prefix up to valid_up_to of any
\* rejected buffer is accepted by the validator.
C16_PrefixValid_Original ==
    (op = "validate" /\ ~res.ok) =>
        /\ valid_up_to(res) <= Len(x)
        /\ validate_modified_utf8(Prefix(x, valid_up_to(res))).ok

\* C16 (amended): when the validator rejects a buffer with a known
\* error_len, the prefix up to valid_up_to is accepted by the validator;
\* a truncation error (error_len None) has valid_up_to equal to the length
\* of the buffer, so its prefix is the rejected buffer itself.
C16_PrefixValid ==
    (op = "validate" /\ ~res.ok) =>
        /\ HasLen(res) =>
             /\ valid_up_to(res) < Len(x)
             /\ validate_modified_utf8(Prefix(x, valid_up_to(res))).ok
        /\ ~HasLen(res) => valid_up_to(res) = Len(x)

\* a buffer with a 0xF0 lead after a 2-byte sequence has been rejected
C16_Witness ==
    /\ op = "validate"
    /\ x = <<\hC3, \hA9, \hF0, \h41>>
    /\ res = Err(2, <<1>>)

\* C17: an error of the validator stays inside the buffer: valid_up_to is
\* at most the length, and a known error_len n is 1, 2, 3 or 6 with
\* valid_up_to + n at most the length.
C17_ErrorInBounds ==
    (op = "validate" /\ ~res.ok) =>
        /\ valid_up_to(res) <= Len(x)
        /\ HasLen(res) =>
             /\ error_len(res)[1] \in {1, 2, 3, 6}
             /\ valid_up_to(res) + error_len(res)[1] <= Len(x)

====
